---------------------------- MODULE Spec2Model ----------------------------
(***************************************************************************)
(* Session / pipeline runtime of the Wernicke WebSocket transcription      *)
(* server (src/websocket-server).                                          *)
(*                                                                         *)
(*   TranscriptionSession   services/transcription_session.py              *)
(*   validate_audio_chunk   utils/audio_validator.py                       *)
(*   GPUPipeline            services/gpu_pipeline.py                       *)
(*   websocket_endpoint     routers/websocket_transcribe.py                *)
(*                                                                         *)
(* Byte strings are kept run-length encoded: a sequence of runs            *)
(* [v |-> byte value, n |-> count], adjacent runs having different values. *)
(* Durations of silence are counted in tenths of a second, wall-clock time *)
(* in clock ticks.                                                         *)
(***************************************************************************)
EXTENDS Integers, Sequences, FiniteSets, TLC

VARIABLES
    clock,            \* wall clock (time.time() / datetime.now()), in ticks
    gpu_pipeline,     \* module global gpu_pipeline: None or the loaded pipeline
    backpressure,     \* whether the server's transport may hold a send back
                      \*   (await websocket.send_json suspends the caller)
    running,          \* the pipeline invocations that are executing: which
                      \*   connection, which phase, which buffer
    active_sessions,  \* module global active_sessions (its key set)
    session,          \* session[s]: the TranscriptionSession object of connection s
    ret,              \* ret[s]: what the latest flush() of session s returned
    pc,               \* pc[s]: position of websocket_endpoint for connection s
    conn,             \* conn[s]: the transport as the peer leaves it
    sent,             \* sent[s]: frames delivered on connection s, in order
    writers,          \* writers[s]: the coroutines that are inside
                      \*   websocket.send_json on connection s
    tasks,            \* tasks[s]: arguments of the spawned, unfinished final tasks
    nops,             \* nops[s]: messages received / API calls made so far
    validated,        \* validated[s]: the latest call of validate_audio_chunk
                      \*   for connection s: the number of the message or call,
                      \*   its argument and what it returned
    generated,        \* history: every buffer_id session s generated, in order
    appended,         \* history: chunks appended to session s since its last flush
    flushlog          \* history: one record per flush made by the main loop:
                      \*   the id flushed, whether a pipeline was there, what
                      \*   the gate said, how often the recognizer ran and how
                      \*   it ended, whether the GPU cache was released, the
                      \*   position in sent[s] of the main loop's reply, the
                      \*   error frames the loop tried to send after a failed
                      \*   reply, the bytes flushed, the
                      \*   start time the session held for the buffer
                      \*   (first_append) and the buffer_start_time handed
                      \*   to the pipeline

vars == <<clock, gpu_pipeline, backpressure, running, active_sessions, session, ret, pc,
          conn, sent, writers, tasks, nops, validated, generated, appended,
          flushlog>>

-----------------------------------------------------------------------------
(* Bounds of the model *)

MaxClock == 5

MaxCalls == 4

MaxMsgs == 2

\* The messages the clients of a multi-connection run send between them
MaxTaken == 1

\* The connections the server can hold at once
Clients == {1, 2}

\* The connection followed where one session is looked at alone
Sessions == {1}

\* Optional values: None, or Some(x)
None == <<>>

Some(x) == <<x>>

-----------------------------------------------------------------------------
(* Program constants *)

SAMPLE_RATE == 16000

CHANNELS == 1

BYTES_PER_SAMPLE == 4

BYTES_PER_SECOND == SAMPLE_RATE * CHANNELS * BYTES_PER_SAMPLE

MAX_BUFFER_DURATION == 30

MAX_BUFFER_SIZE == BYTES_PER_SECOND * MAX_BUFFER_DURATION

\* SILENCE_THRESHOLD = 2.0 s, in tenths of a second
SILENCE_THRESHOLD == 20

\* MIN_BUFFER_DURATION = 5.0 s
MIN_BUFFER_DURATION == 5

MIN_BUFFER_SIZE == BYTES_PER_SECOND * MIN_BUFFER_DURATION

-----------------------------------------------------------------------------
(* Byte strings *)

Range(f) == {f[i] : i \in DOMAIN f}

\* len(b)
RECURSIVE ByteLen(_)
ByteLen(b) == IF b = <<>> THEN 0 ELSE b[1].n + ByteLen(Tail(b))

\* bytearray.extend(chunk): the bytes of chunk follow those already there
Extend(b, chunk) ==
    IF chunk.n = 0 THEN b
    ELSE IF b # <<>> /\ b[Len(b)].v = chunk.v
         THEN [b EXCEPT ![Len(b)].n = @ + chunk.n]
         ELSE Append(b, chunk)

\* The byte string made of the given chunks, first chunk first.
RECURSIVE Concat(_)
Concat(chunks) ==
    IF chunks = <<>> THEN <<>>
    ELSE LET rest == Concat(Tail(chunks))
             c == Head(chunks)
         IN  IF c.n = 0 THEN rest
             ELSE IF rest # <<>> /\ rest[1].v = c.v
                  THEN <<[v |-> c.v, n |-> c.n + rest[1].n]>> \o Tail(rest)
                  ELSE <<c>> \o rest

-----------------------------------------------------------------------------
(* TranscriptionSession *)

RECURSIVE Digits(_)
Digits(n) == IF n < 10 THEN <<n>> ELSE Append(Digits(n \div 10), n % 10)

\* Mutant: the number is written without padding.
Format03d_Unpadded(n) == Digits(n)

\* f"{n:03d}": decimal digits, zero-padded on the left to at least 3
Format03d(n) ==
    LET d == Digits(n)
    IN  IF Len(d) >= 3 THEN d ELSE [i \in 1..(3 - Len(d)) |-> 0] \o d

\* now.strftime("%Y%m%d") + "_" + now.strftime("%H%M%S"): whole seconds, the
\* clock ticking twice a second
strftime(now) == now \div 2

\* Mutant: the sequence number is left out of the id.
generate_buffer_id_NoCounter(buffer_counter, now) ==
    [date_time |-> strftime(now), nnn |-> Format03d(1)]

\* buff_<date>_<time>_<NNN>
generate_buffer_id(buffer_counter, now) ==
    [date_time |-> strftime(now), nnn |-> Format03d(buffer_counter)]

TranscriptionSession_init(now) ==
    [buffer            |-> <<>>,
     buffer_counter    |-> 1,
     buffer_id         |-> generate_buffer_id(1, now),
     buffer_start_time |-> None,
     silence_duration  |-> 0]

\* Mutant: the chunk replaces the buffer instead of extending it.
add_audio_chunk_Replace(self, chunk, now) ==
    [self EXCEPT
        !.buffer_start_time = IF ByteLen(self.buffer) = 0 THEN Some(now) ELSE @,
        !.buffer = Extend(<<>>, chunk)]

add_audio_chunk(self, chunk, now) ==
    [self EXCEPT
        !.buffer_start_time = IF ByteLen(self.buffer) = 0 THEN Some(now) ELSE @,
        !.buffer = Extend(@, chunk)]

track_silence(self, duration) ==
    [self EXCEPT !.silence_duration = @ + duration]

reset_silence(self) == [self EXCEPT !.silence_duration = 0]

\* Mutant: the silence trigger ignores the minimum buffer size.
should_flush_NoMinGate(self) ==
    IF ByteLen(self.buffer) = 0 THEN FALSE
    ELSE IF ByteLen(self.buffer) >= MAX_BUFFER_SIZE THEN TRUE
    ELSE self.silence_duration >= SILENCE_THRESHOLD

\* Mutant: the hard ceiling must be exceeded, not reached.
should_flush_StrictMax(self) ==
    IF ByteLen(self.buffer) = 0 THEN FALSE
    ELSE IF ByteLen(self.buffer) > MAX_BUFFER_SIZE THEN TRUE
    ELSE IF self.silence_duration >= SILENCE_THRESHOLD
         THEN ByteLen(self.buffer) >= MIN_BUFFER_SIZE
         ELSE FALSE

should_flush(self) ==
    IF ByteLen(self.buffer) = 0 THEN FALSE
    ELSE IF ByteLen(self.buffer) >= MAX_BUFFER_SIZE THEN TRUE
    ELSE IF self.silence_duration >= SILENCE_THRESHOLD
         THEN IF ByteLen(self.buffer) >= MIN_BUFFER_SIZE THEN TRUE ELSE FALSE
         ELSE FALSE

\* Mutant: the buffer is returned but not cleared.
flush_NoClear(self, now) ==
    [audio_data |-> self.buffer,
     buffer_id  |-> self.buffer_id,
     self       |-> [self EXCEPT
                        !.silence_duration = 0,
                        !.buffer_counter = @ + 1,
                        !.buffer_id =
                            generate_buffer_id(self.buffer_counter + 1, now)]]

\* flush(): the returned pair and the session as flush leaves it
flush(self, now) ==
    [audio_data |-> self.buffer,
     buffer_id  |-> self.buffer_id,
     self       |-> [self EXCEPT
                        !.buffer = <<>>,
                        !.buffer_start_time = None,
                        !.silence_duration = 0,
                        !.buffer_counter = @ + 1,
                        !.buffer_id =
                            generate_buffer_id(self.buffer_counter + 1, now)]]

-----------------------------------------------------------------------------
(* Dictionaries: a result or a frame is a record; a key may be missing *)

HasKey(d, k) == k \in DOMAIN d

\* d.get(k), with NoKey standing for a missing key
NoKey == "<missing>"

TypeOf(d) == IF HasKey(d, "type") THEN d.type ELSE NoKey

BufferIdOf(d) == IF HasKey(d, "buffer_id") THEN Some(d.buffer_id) ELSE None

\* JSON values of a "code" key: a string or a number
JStr(x) == [str |-> x]

JNum(x) == [int |-> x]

CodeOf(d) == IF HasKey(d, "code") THEN d.code ELSE JStr(NoKey)

-----------------------------------------------------------------------------
(* validate_audio_chunk *)

EXPECTED_SAMPLE_RATE == 16000

EXPECTED_CHANNELS == 1

EXPECTED_BYTES_PER_SAMPLE == 4

EXPECTED_FRAME_SIZE == EXPECTED_CHANNELS * EXPECTED_BYTES_PER_SAMPLE

MAX_DURATION_SECONDS == 30

MAX_PAYLOAD_BYTES ==
    MAX_DURATION_SECONDS * EXPECTED_SAMPLE_RATE * EXPECTED_CHANNELS
        * EXPECTED_BYTES_PER_SAMPLE

\* int(0.001 * rate * channels * bytes_per_sample)
min_bytes ==
    (EXPECTED_SAMPLE_RATE * EXPECTED_CHANNELS * EXPECTED_BYTES_PER_SAMPLE) \div 1000

InvalidFormat(msg) ==
    [type |-> "error", code |-> JStr("INVALID_FORMAT"), message |-> msg]

\* Mutant: every non-empty payload is accepted.
validate_audio_chunk_AcceptAll(audio_data) ==
    LET len == ByteLen(audio_data)
    IN  IF len = 0
        THEN [is_valid |-> FALSE, error_response |-> Some(InvalidFormat("empty"))]
        ELSE [is_valid |-> TRUE, error_response |-> None]

\* Mutant: a payload of exactly the maximum size is rejected.
validate_audio_chunk_ExclusiveMax(audio_data) ==
    LET len == ByteLen(audio_data)
    IN  IF len = 0
        THEN [is_valid |-> FALSE, error_response |-> Some(InvalidFormat("empty"))]
        ELSE IF len >= MAX_PAYLOAD_BYTES
        THEN [is_valid |-> FALSE, error_response |-> Some(InvalidFormat("too large"))]
        ELSE IF len % EXPECTED_FRAME_SIZE # 0
        THEN [is_valid |-> FALSE, error_response |-> Some(InvalidFormat("not aligned"))]
        ELSE IF len < min_bytes
        THEN [is_valid |-> FALSE, error_response |-> Some(InvalidFormat("too small"))]
        ELSE [is_valid |-> TRUE, error_response |-> None]

\* (is_valid, error_response); error_response is None for a valid chunk
validate_audio_chunk(audio_data) ==
    LET len == ByteLen(audio_data)
    IN  IF len = 0
        THEN [is_valid |-> FALSE, error_response |-> Some(InvalidFormat("empty"))]
        ELSE IF len > MAX_PAYLOAD_BYTES
        THEN [is_valid |-> FALSE, error_response |-> Some(InvalidFormat("too large"))]
        ELSE IF len % EXPECTED_FRAME_SIZE # 0
        THEN [is_valid |-> FALSE, error_response |-> Some(InvalidFormat("not aligned"))]
        ELSE IF len < min_bytes
        THEN [is_valid |-> FALSE, error_response |-> Some(InvalidFormat("too small"))]
        ELSE [is_valid |-> TRUE, error_response |-> None]

-----------------------------------------------------------------------------
(* GPUPipeline.  The models are opaque: what the voice-activity detector   *)
(* and the recognizer answer for a buffer is an input of the operators.    *)
(* Segment times are kept in samples (seconds * 16000); latency_ms, a      *)
(* measurement, is left out of the results.                                *)

\* get_speech_timestamps: it raises, or returns a list of speech spans
VadAnswers ==
    { [kind |-> "raise", spans |-> 0],
      [kind |-> "ok", spans |-> 0],
      [kind |-> "ok", spans |-> 1] }

\* whisper_processor / whisper_model.generate / batch_decode: the decoded
\* text, torch.cuda.OutOfMemoryError, or another exception
RecAnswers ==
    { [kind |-> "ok", text |-> " "],
      [kind |-> "ok", text |-> "txt"],
      [kind |-> "oom", text |-> ""],
      [kind |-> "fail", text |-> ""] }

\* text.strip()
strip(text) == IF text = " " THEN "" ELSE text

\* What goes wrong in process_final, if anything: apply_alignment or
\* apply_diarization raises, or inside apply_llm_correction the correction
\* service is unreachable (ConnectionError, OSError) or another exception
\* is raised.
StageFaults ==
    {"none", "align", "diarize", "correct_connection", "correct_other"}

\* An exception leaving a stage.
Raised == [raised |-> TRUE]

\* Mutant: the cache is not released on out-of-memory.
handle_gpu_error_NoCacheRelease(kind) ==
    IF kind = "oom"
    THEN [result |-> [error |-> TRUE, error_type |-> "GPU_OOM",
                      message |-> "GPU Out of Memory. Buffer will be skipped."],
          empty_cache |-> FALSE]
    ELSE [result |-> [error |-> TRUE, error_type |-> "GPU_ERROR",
                      message |-> "gpu error"],
          empty_cache |-> FALSE]

\* handle_gpu_error: the returned dict, and whether torch.cuda.empty_cache ran
handle_gpu_error(kind) ==
    IF kind = "oom"
    THEN [result |-> [error |-> TRUE, error_type |-> "GPU_OOM",
                      message |-> "GPU Out of Memory. Buffer will be skipped."],
          empty_cache |-> TRUE]
    ELSE [result |-> [error |-> TRUE, error_type |-> "GPU_ERROR",
                      message |-> "gpu error"],
          empty_cache |-> FALSE]

\* Mutant: a detector that raises counts as silence.
detect_speech_segments_FailClosed(pipeline, vad) ==
    IF ~pipeline.vad_model THEN TRUE
    ELSE IF vad.kind = "raise" THEN FALSE
    ELSE vad.spans > 0

\* _detect_speech_segments: has_speech
detect_speech_segments(pipeline, vad) ==
    IF ~pipeline.vad_model THEN TRUE
    ELSE IF vad.kind = "raise" THEN TRUE
    ELSE vad.spans > 0

\* len(np.frombuffer(audio_data, dtype=np.float32))
Samples(audio_data) == ByteLen(audio_data) \div BYTES_PER_SAMPLE

\* Mutant: the recognizer runs whatever the voice-activity gate says.
transcribe_audio_NoVadGate(pipeline, audio_data, buffer_start_time, vad, rec) ==
    IF rec.kind = "oom"
    THEN [result |-> handle_gpu_error("oom").result,
          has_speech |-> detect_speech_segments(pipeline, vad),
          rec_calls |-> 1, empty_cache |-> handle_gpu_error("oom").empty_cache]
    ELSE IF rec.kind = "fail"
    THEN [result |-> [error |-> TRUE, message |-> "recognizer failed"],
          has_speech |-> detect_speech_segments(pipeline, vad),
          rec_calls |-> 1, empty_cache |-> FALSE]
    ELSE [result |->
             [text |-> rec.text,
              segments |->
                 IF strip(rec.text) # ""
                 THEN <<[start |-> 0, end |-> Samples(audio_data),
                         text |-> rec.text]>>
                 ELSE <<>>],
          has_speech |-> detect_speech_segments(pipeline, vad),
          rec_calls |-> 1, empty_cache |-> FALSE]

\* transcribe_audio: the returned dict; has_speech, the number of recognizer
\* invocations and the cache release are recorded beside it
transcribe_audio(pipeline, audio_data, buffer_start_time, vad, rec) ==
    IF ByteLen(audio_data) % BYTES_PER_SAMPLE # 0
    THEN \* np.frombuffer raises ValueError
         [result |-> [error |-> TRUE, message |-> "buffer size"],
          has_speech |-> FALSE, rec_calls |-> 0, empty_cache |-> FALSE]
    ELSE IF ~detect_speech_segments(pipeline, vad)
    THEN [result |-> [text |-> "", segments |-> <<>>, vad_skipped |-> TRUE],
          has_speech |-> FALSE, rec_calls |-> 0, empty_cache |-> FALSE]
    ELSE IF rec.kind = "oom"
    THEN [result |-> handle_gpu_error("oom").result, has_speech |-> TRUE,
          rec_calls |-> 1, empty_cache |-> handle_gpu_error("oom").empty_cache]
    ELSE IF rec.kind = "fail"
    THEN [result |-> [error |-> TRUE, message |-> "recognizer failed"],
          has_speech |-> TRUE, rec_calls |-> 1, empty_cache |-> FALSE]
    ELSE [result |->
             [text |-> rec.text,
              segments |->
                 IF strip(rec.text) # ""
                 THEN <<[start |-> 0, end |-> Samples(audio_data),
                         text |-> rec.text]>>
                 ELSE <<>>],
          has_speech |-> TRUE, rec_calls |-> 1, empty_cache |-> FALSE]

Min(S) == CHOOSE x \in S : \A y \in S : x <= y

Max(S) == CHOOSE x \in S : \A y \in S : x >= y

\* Mutant: the range runs from the latest end to the earliest start.
timestamp_range_Swapped(segments) ==
    IF segments # <<>>
    THEN [start |-> Max({segments[i].end : i \in DOMAIN segments}),
          end   |-> Min({segments[i].start : i \in DOMAIN segments})]
    ELSE [start |-> 0, end |-> 0]

\* {'start': min(seg['start']), 'end': max(seg['end'])}, or {0.0, 0.0}
timestamp_range(segments) ==
    IF segments # <<>>
    THEN [start |-> Min({segments[i].start : i \in DOMAIN segments}),
          end   |-> Max({segments[i].end : i \in DOMAIN segments})]
    ELSE [start |-> 0, end |-> 0]

\* Mutant: after a recognizer error an empty recognizer output is handed on.
process_partial_FinalAfterError(pipeline, audio_data, buffer_id, buffer_start_time, vad, rec) ==
    LET t == transcribe_audio(pipeline, audio_data, buffer_start_time, vad, rec)
    IN  IF HasKey(t.result, "error")
        THEN [partial_result |-> t.result,
              whisper_result |-> Some([text |-> "", segments |-> <<>>]),
              t |-> t]
        ELSE [partial_result |->
                 [type |-> "partial",
                  buffer_id |-> buffer_id,
                  text |-> t.result.text,
                  segments |-> t.result.segments,
                  timestamp_range |-> timestamp_range(t.result.segments)],
              whisper_result |-> Some(t.result),
              t |-> t]

\* process_partial_and_get_whisper_result: (partial_result, whisper_result);
\* t carries what transcribe_audio did
process_partial_and_get_whisper_result(pipeline, audio_data, buffer_id, buffer_start_time, vad, rec) ==
    LET t == transcribe_audio(pipeline, audio_data, buffer_start_time, vad, rec)
    IN  IF HasKey(t.result, "error")
        THEN [partial_result |-> t.result, whisper_result |-> None, t |-> t]
        ELSE [partial_result |->
                 [type |-> "partial",
                  buffer_id |-> buffer_id,
                  text |-> t.result.text,
                  segments |-> t.result.segments,
                  timestamp_range |-> timestamp_range(t.result.segments)],
              whisper_result |-> Some(t.result),
              t |-> t]

\* apply_alignment (stub): the segments unchanged
apply_alignment(segments, audio_data) == segments

\* apply_diarization (stub): every segment gets the default speaker
apply_diarization(segments, audio_data) ==
    [i \in DOMAIN segments |->
        [k \in DOMAIN segments[i] \cup {"speaker"} |->
            IF k = "speaker" THEN "Speaker_00" ELSE segments[i][k]]]

\* seg.copy() with seg['corrected'] = False, for every segment
Uncorrected(segments) ==
    [i \in DOMAIN segments |->
        [k \in DOMAIN segments[i] \cup {"corrected"} |->
            IF k = "corrected" THEN FALSE ELSE segments[i][k]]]

\* Mutant: a failure of the correction service leaves apply_llm_correction.
apply_llm_correction_Propagate(text, segments, fault) ==
    IF fault \in {"correct_connection", "correct_other"}
    THEN Raised
    ELSE [corrected_text |-> text,
          corrected_segments |-> Uncorrected(segments)]

\* apply_llm_correction (stub): text unchanged, segments marked uncorrected;
\* so do both except branches
apply_llm_correction(text, segments, fault) ==
    IF fault = "correct_connection"
    THEN \* except (ConnectionError, OSError)
         [corrected_text |-> text,
          corrected_segments |-> Uncorrected(segments)]
    ELSE IF fault = "correct_other"
    THEN \* except Exception
         [corrected_text |-> text,
          corrected_segments |-> Uncorrected(segments)]
    ELSE [corrected_text |-> text,
          corrected_segments |-> Uncorrected(segments)]

\* Mutant: the final phase runs the recognizer again.
process_final_Retranscribe(whisper_result, audio_data, buffer_id, buffer_start_time, fault) ==
    LET llm == apply_llm_correction(whisper_result.text,
                   apply_diarization(
                       apply_alignment(whisper_result.segments, audio_data),
                       audio_data), "none")
    IN  [result |->
            [type |-> "final",
             buffer_id |-> buffer_id,
             text |-> llm.corrected_text,
             segments |-> llm.corrected_segments,
             timestamp_range |-> timestamp_range(llm.corrected_segments)],
         rec_calls |-> 1]

\* Mutant: the final is stamped with a default id instead of the flushed one.
process_final_FixedId(whisper_result, audio_data, buffer_id, buffer_start_time, fault) ==
    LET llm == apply_llm_correction(whisper_result.text,
                   apply_diarization(
                       apply_alignment(whisper_result.segments, audio_data),
                       audio_data), "none")
    IN  [result |->
            [type |-> "final",
             buffer_id |-> generate_buffer_id(0, 0),
             text |-> llm.corrected_text,
             segments |-> llm.corrected_segments,
             timestamp_range |-> timestamp_range(llm.corrected_segments)],
         rec_calls |-> 0]

\* process_final: the returned dict, and the recognizer invocations it made
process_final(whisper_result, audio_data, buffer_id, buffer_start_time, fault) ==
    IF HasKey(whisper_result, "error")
    THEN [result |-> whisper_result, rec_calls |-> 0]
    ELSE IF fault \in {"align", "diarize"}
    THEN \* the stage raises; except Exception
         [result |-> [error |-> TRUE, message |-> "stage failed"], rec_calls |-> 0]
    ELSE LET llm == apply_llm_correction(whisper_result.text,
                        apply_diarization(
                            apply_alignment(whisper_result.segments, audio_data),
                            audio_data), fault)
         IN  IF llm = Raised
             THEN \* except Exception
                  [result |-> [error |-> TRUE, message |-> "stage failed"],
                   rec_calls |-> 0]
             ELSE [result |->
                      [type |-> "final",
                       buffer_id |-> buffer_id,
                       text |-> llm.corrected_text,
                       segments |-> llm.corrected_segments,
                       timestamp_range |->
                          timestamp_range(llm.corrected_segments)],
                   rec_calls |-> 0]

-----------------------------------------------------------------------------
(* Initial state: the server has started, at the second half of a second   *)
(* of wall-clock time, and every session object is as its constructor      *)
(* leaves it.                                                              *)

\* gpu_pipeline after startup_event: None when GPUPipeline() raised, else the
\* pipeline, whose vad_model is None when loading Silero-VAD failed.
PipelineStates ==
    {None} \cup {Some([vad_model |-> b]) : b \in BOOLEAN}

Boot(bp) ==
    /\ clock = 1
    /\ gpu_pipeline \in PipelineStates
    /\ backpressure = bp
    /\ running = {}
    /\ active_sessions = {}
    /\ session = [s \in Clients |-> TranscriptionSession_init(1)]
    /\ ret = [s \in Clients |-> None]
    /\ pc = [s \in Clients |-> "idle"]
    /\ conn = [s \in Clients |-> "none"]
    /\ sent = [s \in Clients |-> <<>>]
    /\ writers = [s \in Clients |-> {}]
    /\ tasks = [s \in Clients |-> <<>>]
    /\ nops = [s \in Clients |-> 0]
    /\ validated = [s \in Clients |-> None]
    /\ generated = [s \in Clients |-> <<TranscriptionSession_init(1).buffer_id>>]
    /\ appended = [s \in Clients |-> <<>>]
    /\ flushlog = [s \in Clients |-> <<>>]

\* The transport takes every frame at once.
Init == Boot(FALSE)

Tick ==
    /\ clock < MaxClock
    /\ clock' = clock + 1
    /\ UNCHANGED <<gpu_pipeline, backpressure, running, active_sessions, session, ret, pc, conn, sent, writers,
                   tasks, nops, validated, generated, appended, flushlog>>

-----------------------------------------------------------------------------
(* The session object driven directly through its methods *)

runtime_vars ==
    <<gpu_pipeline, backpressure, running, active_sessions, pc, conn, sent, writers, tasks, validated, flushlog>>

ApiChunks ==
    { [v |-> 0, n |-> 0], [v |-> 0, n |-> 1024], [v |-> 1, n |-> 1024],
      [v |-> 0, n |-> MIN_BUFFER_SIZE], [v |-> 1, n |-> MAX_BUFFER_SIZE] }

ApiSilences == {5, 20}

ApiAddAudioChunk(s) ==
    /\ nops[s] < MaxCalls
    /\ \E chunk \in ApiChunks :
          /\ session' = [session EXCEPT ![s] = add_audio_chunk(@, chunk, clock)]
          /\ appended' = [appended EXCEPT ![s] = Append(@, chunk)]
    /\ nops' = [nops EXCEPT ![s] = @ + 1]
    /\ UNCHANGED <<clock, ret, generated>>
    /\ UNCHANGED runtime_vars

ApiTrackSilence(s) ==
    /\ nops[s] < MaxCalls
    /\ \E d \in ApiSilences :
          session' = [session EXCEPT ![s] = track_silence(@, d)]
    /\ nops' = [nops EXCEPT ![s] = @ + 1]
    /\ UNCHANGED <<clock, ret, generated, appended>>
    /\ UNCHANGED runtime_vars

ApiResetSilence(s) ==
    /\ nops[s] < MaxCalls
    /\ session[s].silence_duration > 0
    /\ session' = [session EXCEPT ![s] = reset_silence(@)]
    /\ nops' = [nops EXCEPT ![s] = @ + 1]
    /\ UNCHANGED <<clock, ret, generated, appended>>
    /\ UNCHANGED runtime_vars

ApiFlush(s) ==
    /\ nops[s] < MaxCalls
    /\ LET r == flush(session[s], clock)
       IN  /\ session' = [session EXCEPT ![s] = r.self]
           /\ ret' = [ret EXCEPT ![s] =
                        Some([audio_data |-> r.audio_data, buffer_id |-> r.buffer_id])]
           /\ generated' = [generated EXCEPT ![s] = Append(@, r.self.buffer_id)]
    /\ appended' = [appended EXCEPT ![s] = <<>>]
    /\ nops' = [nops EXCEPT ![s] = @ + 1]
    /\ UNCHANGED clock
    /\ UNCHANGED runtime_vars

SessionNext ==
    \/ Tick
    \/ \E s \in Sessions : ApiAddAudioChunk(s)
    \/ \E s \in Sessions : ApiTrackSilence(s)
    \/ \E s \in Sessions : ApiResetSilence(s)
    \/ \E s \in Sessions : ApiFlush(s)

\* A session constructed on its own, with no server around it.
SessionInit ==
    /\ Init
    /\ gpu_pipeline = None

SessionSpec == SessionInit /\ [][SessionNext]_vars

-----------------------------------------------------------------------------
(* validate_audio_chunk called directly, on payloads around its limits *)

ValidatorLengths ==
    { 0, 1, 3, 4, 7, 60, 63, 64, 65, 68, 1024,
      MAX_PAYLOAD_BYTES - 4, MAX_PAYLOAD_BYTES - 1, MAX_PAYLOAD_BYTES,
      MAX_PAYLOAD_BYTES + 1, MAX_PAYLOAD_BYTES + 4 }

ValidatorChunks == {[v |-> b, n |-> l] : b \in {0, 1}, l \in ValidatorLengths}

ApiValidate(s) ==
    /\ nops[s] < MaxCalls
    /\ \E chunk \in ValidatorChunks :
          LET audio_data == Extend(<<>>, chunk)
              v == validate_audio_chunk(audio_data)
          IN  validated' = [validated EXCEPT ![s] =
                  Some([call |-> nops[s] + 1, audio_data |-> audio_data,
                        is_valid |-> v.is_valid,
                        error_response |-> v.error_response])]
    /\ nops' = [nops EXCEPT ![s] = @ + 1]
    /\ UNCHANGED <<clock, gpu_pipeline, backpressure, running, active_sessions, session, ret, pc, conn,
                   sent, writers, tasks, generated, appended, flushlog>>

ValidatorNext == \E s \in Sessions : ApiValidate(s)

ValidatorSpec == SessionInit /\ [][ValidatorNext]_vars

-----------------------------------------------------------------------------
(* The pipeline driven directly through process_partial, process_final and *)
(* apply_llm_correction, as its tests do.  ret[s] holds the last call:     *)
(* its arguments, what went wrong inside it, and what it returned.         *)

\* A pipeline has been loaded.
PipelineInit == Init /\ gpu_pipeline # None

\* Flushed buffers of 5 s, 30 s and 45 s
PipelineAudio ==
    { Extend(<<>>, [v |-> 1, n |-> MIN_BUFFER_SIZE]),
      Extend(<<>>, [v |-> 1, n |-> MAX_BUFFER_SIZE]),
      Extend(<<>>, [v |-> 0, n |-> MAX_BUFFER_SIZE + MAX_BUFFER_SIZE \div 2]) }

\* Segments handed to apply_llm_correction
CorrectionSegments ==
    { <<>>,
      <<[start |-> 0, end |-> 16000, text |-> "txt"]>>,
      <<[start |-> 0, end |-> 8000, text |-> "a", speaker |-> "Speaker_00"],
        [start |-> 8000, end |-> 16000, text |-> "b", speaker |-> "Speaker_00"]>> }

\* partial, whisper = await pipeline.process_partial_and_get_whisper_result(...)
ApiProcessPartial(s) ==
    /\ nops[s] < MaxCalls
    /\ \E audio_data \in PipelineAudio, vad \in VadAnswers, rec \in RecAnswers :
          LET p == process_partial_and_get_whisper_result(
                       gpu_pipeline[1], audio_data, session[s].buffer_id,
                       None, vad, rec)
          IN  ret' = [ret EXCEPT ![s] =
                 Some([call |-> nops[s] + 1, op |-> "process_partial",
                       audio_data |-> audio_data,
                       whisper_result |-> p.whisper_result,
                       fault |-> "none",
                       vad |-> vad.kind,
                       rec_calls |-> p.t.rec_calls,
                       result |-> p.partial_result])]
    /\ nops' = [nops EXCEPT ![s] = @ + 1]
    /\ UNCHANGED <<clock, session, appended, generated>>
    /\ UNCHANGED runtime_vars

\* final = await pipeline.process_final(whisper_result, ...), on the
\* recognizer output the preceding process_partial returned
ApiProcessFinal(s) ==
    /\ nops[s] < MaxCalls
    /\ ret[s] # None
    /\ ret[s][1].op = "process_partial"
    /\ ret[s][1].whisper_result # None
    /\ \E fault \in StageFaults :
          LET f == process_final(ret[s][1].whisper_result[1],
                                 ret[s][1].audio_data, session[s].buffer_id,
                                 None, fault)
          IN  ret' = [ret EXCEPT ![s] =
                 Some([call |-> nops[s] + 1, op |-> "process_final",
                       audio_data |-> ret[s][1].audio_data,
                       whisper_result |-> ret[s][1].whisper_result,
                       fault |-> fault,
                       result |-> f.result])]
    /\ nops' = [nops EXCEPT ![s] = @ + 1]
    /\ UNCHANGED <<clock, session, appended, generated>>
    /\ UNCHANGED runtime_vars

\* result = await pipeline.apply_llm_correction(text, segments)
ApiCorrect(s) ==
    /\ nops[s] < MaxCalls
    /\ \E text \in {"", "txt"}, segments \in CorrectionSegments :
       \E fault \in {"none", "correct_connection", "correct_other"} :
          ret' = [ret EXCEPT ![s] =
             Some([call |-> nops[s] + 1, op |-> "apply_llm_correction",
                   text |-> text, segments |-> segments, fault |-> fault,
                   result |-> apply_llm_correction(text, segments, fault)])]
    /\ nops' = [nops EXCEPT ![s] = @ + 1]
    /\ UNCHANGED <<clock, session, appended, generated>>
    /\ UNCHANGED runtime_vars

PipelineNext ==
    \/ \E s \in Sessions : ApiProcessPartial(s)
    \/ \E s \in Sessions : ApiProcessFinal(s)
    \/ \E s \in Sessions : ApiCorrect(s)

PipelineSpec == PipelineInit /\ [][PipelineNext]_vars

-----------------------------------------------------------------------------
(* websocket_endpoint: one main loop per connection, and the final tasks   *)
(* it spawns.  A step runs from one suspension point (accept, receive,     *)
(* send) to the next; process_partial and process_final contain no         *)
(* suspension point of their own.  websocket.send_json delivers the frame  *)
(* while the peer is there and raises once the peer has gone.              *)

session_vars == <<ret, appended, validated>>

\* What a client sends in binary frames.
WireChunks ==
    { [v |-> 0, n |-> 6],
      [v |-> 0, n |-> MAX_BUFFER_SIZE \div 2],
      [v |-> 1, n |-> MAX_BUFFER_SIZE] }

\* message["bytes"] of a binary frame carrying chunk
BytesOf(chunk) == Extend(<<>>, chunk)

\* A pipeline call that is executing: process_partial_and_get_whisper_result
\* (phase "partial") or process_final (phase "final") for a flushed buffer of
\* connection s.
Invocation(s, phase, buffer_id) ==
    [s |-> s, phase |-> phase, buffer_id |-> buffer_id]

\* The event loop's thread is not inside a pipeline call.  The endpoint
\* awaits the pipeline's coroutines directly; these await nothing but each
\* other and call the models synchronously, so the coroutine that entered
\* one keeps the thread until the call returns.
LoopFree == running = {}

\* How many error frames the main loop tries to send once the send of a
\* partial has raised: the handler of the inner try sends one; when that
\* send raises WebSocketDisconnect the loop is left, when it raises another
\* exception the handler of the outer try sends one more.
ErrorAttempts == {1, 2}

\* The coroutine who is inside the send of the frame-th frame of a connection.
Writer(who, frame) == [who |-> who, frame |-> frame]

\* The main loop is not inside a send.
MainReady(s) == \A w \in writers[s] : w.who # "main"

\* Mutant: the frame goes out on every open connection.
Deliver_Broadcast(s, who, frame) ==
    /\ sent' = [c \in Clients |->
                  IF c = s \/ conn[c] = "open" THEN Append(sent[c], frame)
                  ELSE sent[c]]
    /\ \E suspends \in (IF backpressure THEN BOOLEAN ELSE {FALSE}) :
          writers' = [writers EXCEPT ![s] =
                        IF suspends
                        THEN @ \cup {Writer(who, Len(sent[s]) + 1)}
                        ELSE @]

\* await websocket.send_json(frame) on an open connection, called by who:
\* the frame is handed to the transport, and the caller goes on at once or
\* stays suspended in the await until the transport lets it return
Deliver(s, who, frame) ==
    /\ sent' = [sent EXCEPT ![s] = Append(@, frame)]
    /\ \E suspends \in (IF backpressure THEN BOOLEAN ELSE {FALSE}) :
          writers' = [writers EXCEPT ![s] =
                        IF suspends
                        THEN @ \cup {Writer(who, Len(sent[s]) + 1)}
                        ELSE @]

\* get_active_sessions_count(): len(active_sessions)
get_active_sessions_count == Cardinality(active_sessions)

\* Mutant: the finally block leaves the registry alone.
Cleanup_KeepRegistered(s) ==
    /\ active_sessions' = active_sessions
    /\ pc' = [pc EXCEPT ![s] = "done"]
    /\ conn' = [conn EXCEPT ![s] = "closed"]

\* finally: the session leaves the registry; the server closes the transport
\* when the endpoint returns
Cleanup(s) ==
    /\ active_sessions' = active_sessions \ {s}
    /\ pc' = [pc EXCEPT ![s] = "done"]
    /\ conn' = [conn EXCEPT ![s] = "closed"]

\* session = TranscriptionSession(); await websocket.accept();
\* active_sessions[session_id] = websocket
Connect(s) ==
    /\ pc[s] = "idle"
    /\ LoopFree
    /\ session' = [session EXCEPT ![s] = TranscriptionSession_init(clock)]
    /\ generated' = [generated EXCEPT
                        ![s] = <<TranscriptionSession_init(clock).buffer_id>>]
    /\ \/ /\ conn' = [conn EXCEPT ![s] = "open"]
          /\ active_sessions' = active_sessions \cup {s}
          /\ pc' = [pc EXCEPT ![s] = "handshake"]
       \/ \* accept raises: except Exception, finally
          Cleanup(s)
    /\ UNCHANGED <<clock, gpu_pipeline, backpressure, running, sent, writers, tasks, nops, flushlog>>
    /\ UNCHANGED session_vars

\* Handshake going on to the receive loop without sending its frame
Handshake_Skip(s) ==
    /\ pc[s] = "handshake"
    /\ MainReady(s)
    /\ LoopFree
    /\ IF conn[s] = "open"
       THEN /\ pc' = [pc EXCEPT ![s] = "recv"]
            /\ UNCHANGED <<active_sessions, conn, sent, writers>>
       ELSE /\ Cleanup(s)
            /\ UNCHANGED <<sent, writers>>
    /\ UNCHANGED <<clock, gpu_pipeline, backpressure, running, session, tasks, nops, generated, flushlog>>
    /\ UNCHANGED session_vars

\* await websocket.send_json({"type": "connection_established", ...})
Handshake(s) ==
    /\ pc[s] = "handshake"
    /\ MainReady(s)
    /\ LoopFree
    /\ IF conn[s] = "open"
       THEN /\ Deliver(s, "main", [type |-> "connection_established",
                           message |-> "WebSocket connection established",
                           session_id |-> s])
            /\ pc' = [pc EXCEPT ![s] = "recv"]
            /\ UNCHANGED <<active_sessions, conn>>
       ELSE /\ Cleanup(s)
            /\ UNCHANGED <<sent, writers>>
    /\ UNCHANGED <<clock, gpu_pipeline, backpressure, running, session, tasks, nops, generated, flushlog>>
    /\ UNCHANGED session_vars

\* The peer goes away.
ClientClose(s) ==
    /\ conn[s] = "open"
    /\ pc[s] # "done"
    /\ conn' = [conn EXCEPT ![s] = "closed"]
    /\ UNCHANGED <<clock, gpu_pipeline, backpressure, running, active_sessions, session, pc, sent, writers,
                   tasks, nops, generated, flushlog>>
    /\ UNCHANGED session_vars

\* Mutant: the main loop takes the next binary frame only once the final
\* tasks it spawned have ended.
ReceiveBytes_AwaitFinal(s) ==
    /\ pc[s] = "recv"
    /\ MainReady(s)
    /\ LoopFree
    /\ tasks[s] = <<>>
    /\ conn[s] = "open"
    /\ nops[s] < MaxMsgs
    /\ nops' = [nops EXCEPT ![s] = @ + 1]
    /\ \E chunk \in WireChunks :
          LET audio_data == BytesOf(chunk)
              v == validate_audio_chunk(audio_data)
          IN  /\ validated' = [validated EXCEPT ![s] =
                    Some([call |-> nops[s] + 1, audio_data |-> audio_data,
                          is_valid |-> v.is_valid,
                          error_response |-> v.error_response])]
              /\ IF ~v.is_valid
                 THEN /\ Deliver(s, "main", v.error_response[1])
                      /\ UNCHANGED <<session, appended, pc>>
                 ELSE /\ session' = [session EXCEPT
                                       ![s] = add_audio_chunk(@, chunk, clock)]
                      /\ appended' = [appended EXCEPT ![s] = Append(@, chunk)]
                      /\ Deliver(s, "main",
                            [type |-> "audio_received",
                             bytes_received |-> ByteLen(audio_data)])
                      /\ pc' = [pc EXCEPT ![s] =
                                   IF should_flush(session'[s]) THEN "flush"
                                   ELSE "recv"]
    /\ UNCHANGED <<clock, gpu_pipeline, backpressure, running, active_sessions, ret, conn, tasks,
                   generated, flushlog>>

\* ReceiveBytes appending the chunk before it looks at the validator's answer
ReceiveBytes_AppendBeforeValidate(s) ==
    /\ pc[s] = "recv"
    /\ MainReady(s)
    /\ LoopFree
    /\ conn[s] = "open"
    /\ nops[s] < MaxMsgs
    /\ nops' = [nops EXCEPT ![s] = @ + 1]
    /\ \E chunk \in WireChunks :
          LET audio_data == BytesOf(chunk)
              v == validate_audio_chunk(audio_data)
          IN  /\ validated' = [validated EXCEPT ![s] =
                    Some([call |-> nops[s] + 1, audio_data |-> audio_data,
                          is_valid |-> v.is_valid,
                          error_response |-> v.error_response])]
              /\ session' = [session EXCEPT
                               ![s] = add_audio_chunk(@, chunk, clock)]
              /\ appended' = [appended EXCEPT ![s] = Append(@, chunk)]
              /\ IF ~v.is_valid
                 THEN /\ Deliver(s, "main", v.error_response[1])
                      /\ UNCHANGED pc
                 ELSE /\ Deliver(s, "main",
                            [type |-> "audio_received",
                             bytes_received |-> ByteLen(audio_data)])
                      /\ pc' = [pc EXCEPT ![s] =
                                   IF should_flush(session'[s]) THEN "flush"
                                   ELSE "recv"]
    /\ UNCHANGED <<clock, gpu_pipeline, backpressure, running, active_sessions, ret, conn, tasks,
                   generated, flushlog>>

\* message = await websocket.receive() with "bytes" in message
ReceiveBytes(s) ==
    /\ pc[s] = "recv"
    /\ MainReady(s)
    /\ LoopFree
    /\ conn[s] = "open"
    /\ nops[s] < MaxMsgs
    /\ nops' = [nops EXCEPT ![s] = @ + 1]
    /\ \E chunk \in WireChunks :
          LET audio_data == BytesOf(chunk)
              v == validate_audio_chunk(audio_data)
          IN  /\ validated' = [validated EXCEPT ![s] =
                    Some([call |-> nops[s] + 1, audio_data |-> audio_data,
                          is_valid |-> v.is_valid,
                          error_response |-> v.error_response])]
              /\ IF ~v.is_valid
                 THEN /\ Deliver(s, "main", v.error_response[1])
                      /\ UNCHANGED <<session, appended, pc>>
                 ELSE /\ session' = [session EXCEPT
                                       ![s] = add_audio_chunk(@, chunk, clock)]
                      /\ appended' = [appended EXCEPT ![s] = Append(@, chunk)]
                      /\ Deliver(s, "main",
                            [type |-> "audio_received",
                             bytes_received |-> ByteLen(audio_data)])
                      /\ pc' = [pc EXCEPT ![s] =
                                   IF should_flush(session'[s]) THEN "flush"
                                   ELSE "recv"]
    /\ UNCHANGED <<clock, gpu_pipeline, backpressure, running, active_sessions, ret, conn, tasks,
                   generated, flushlog>>

\* ReceiveText leaving the loop after its error frame
ReceiveText_Close(s) ==
    /\ pc[s] = "recv"
    /\ MainReady(s)
    /\ LoopFree
    /\ conn[s] = "open"
    /\ nops[s] < MaxMsgs
    /\ nops' = [nops EXCEPT ![s] = @ + 1]
    /\ Deliver(s, "main",
          [type |-> "error", code |-> JNum(400),
           message |-> "Invalid message format. Expected binary audio data."])
    /\ Cleanup(s)
    /\ UNCHANGED <<clock, gpu_pipeline, backpressure, running, session,
                   tasks, generated, flushlog>>
    /\ UNCHANGED session_vars

\* message = await websocket.receive() with "text" in message
ReceiveText(s) ==
    /\ pc[s] = "recv"
    /\ MainReady(s)
    /\ LoopFree
    /\ conn[s] = "open"
    /\ nops[s] < MaxMsgs
    /\ nops' = [nops EXCEPT ![s] = @ + 1]
    /\ Deliver(s, "main",
          [type |-> "error", code |-> JNum(400),
           message |-> "Invalid message format. Expected binary audio data."])
    /\ UNCHANGED <<clock, gpu_pipeline, backpressure, running, active_sessions, session, pc, conn,
                   tasks, generated, flushlog>>
    /\ UNCHANGED session_vars

\* websocket.receive() once the peer has gone: WebSocketDisconnect, or a
\* disconnect message whose error reply cannot be sent; either way the loop
\* is left and the finally block runs
ReceiveDisconnect(s) ==
    /\ pc[s] = "recv"
    /\ MainReady(s)
    /\ LoopFree
    /\ conn[s] = "closed"
    /\ Cleanup(s)
    /\ UNCHANGED <<clock, gpu_pipeline, backpressure, running, session, sent, writers, tasks, nops, generated,
                   flushlog>>
    /\ UNCHANGED session_vars

\* The flushlog record of the flush that returned buffer_id.
LogIndex(s, buffer_id) ==
    CHOOSE k \in DOMAIN flushlog[s] : flushlog[s][k].buffer_id = buffer_id

\* if session.should_flush(): flush, process_partial, send, create_task
FlushAndPartial(s) ==
    /\ pc[s] = "flush"
    /\ MainReady(s)
    /\ running \subseteq {Invocation(s, "partial", session[s].buffer_id)}
    /\ running' = running \ {Invocation(s, "partial", session[s].buffer_id)}
    /\ LET r == flush(session[s], clock)
           buffer_audio == r.audio_data
           buffer_id == r.buffer_id
           \* session.get_buffer_start_time(), read after flush() returned
           buffer_start_time == r.self.buffer_start_time
       IN  /\ session' = [session EXCEPT ![s] = r.self]
           /\ ret' = [ret EXCEPT ![s] =
                        Some([audio_data |-> buffer_audio, buffer_id |-> buffer_id])]
           /\ generated' = [generated EXCEPT ![s] = Append(@, r.self.buffer_id)]
           /\ appended' = [appended EXCEPT ![s] = <<>>]
           /\ IF gpu_pipeline = None
              THEN \* "GPU pipeline not available, skipping transcription"
                   /\ flushlog' = [flushlog EXCEPT ![s] = Append(@,
                         [buffer_id |-> buffer_id, pipeline |-> FALSE,
                          has_speech |-> FALSE, rec_calls |-> 0,
                          rec |-> "not called", empty_cache |-> FALSE,
                          reply |-> 0, error_attempts |-> 0,
                          audio_data |-> buffer_audio,
                          first_append |-> session[s].buffer_start_time,
                          buffer_start_time |-> buffer_start_time])]
                   /\ pc' = [pc EXCEPT ![s] = "recv"]
                   /\ UNCHANGED <<sent, writers, tasks, active_sessions, conn>>
              ELSE \E vad \in VadAnswers, rec \in RecAnswers :
                     LET p == process_partial_and_get_whisper_result(
                                  gpu_pipeline[1], buffer_audio, buffer_id,
                                  buffer_start_time, vad, rec)
                         entry == [buffer_id |-> buffer_id, pipeline |-> TRUE,
                                   has_speech |-> p.t.has_speech,
                                   rec_calls |-> p.t.rec_calls,
                                   rec |-> IF p.t.rec_calls > 0 THEN rec.kind
                                           ELSE "not called",
                                   empty_cache |-> p.t.empty_cache,
                                   reply |-> 0, error_attempts |-> 0,
                                   audio_data |-> buffer_audio,
                                   first_append |-> session[s].buffer_start_time,
                                   buffer_start_time |-> buffer_start_time]
                     IN  IF conn[s] = "open"
                         THEN /\ Deliver(s, "main", p.partial_result)
                              /\ flushlog' = [flushlog EXCEPT ![s] = Append(@,
                                    [entry EXCEPT !.reply = Len(sent[s]) + 1])]
                              /\ tasks' = [tasks EXCEPT ![s] =
                                    IF p.whisper_result # None
                                    THEN Append(@,
                                           [whisper_result |-> p.whisper_result[1],
                                            audio_data |-> buffer_audio,
                                            buffer_id |-> buffer_id,
                                            buffer_start_time |-> buffer_start_time])
                                    ELSE @]
                              /\ pc' = [pc EXCEPT ![s] = "recv"]
                              /\ UNCHANGED <<active_sessions, conn>>
                         ELSE \* send_json raises, and so does every send of
                              \* an error frame: the loop is left
                              /\ \E n \in ErrorAttempts :
                                    flushlog' = [flushlog EXCEPT ![s] = Append(@,
                                       [entry EXCEPT !.error_attempts = n])]
                              /\ Cleanup(s)
                              /\ UNCHANGED <<sent, writers, tasks>>
    /\ UNCHANGED <<clock, gpu_pipeline, backpressure, nops, validated>>

\* t without its i-th element
Remove(t, i) == [j \in 1..(Len(t) - 1) |-> IF j < i THEN t[j] ELSE t[j + 1]]

\* Mutant: the error frame of the except branch is sent after the result
\* as well.
FinalTask_ResultAndError(s) ==
    /\ \E i \in DOMAIN tasks[s], fault \in StageFaults :
          LET a == tasks[s][i]
              f == process_final(a.whisper_result, a.audio_data, a.buffer_id,
                                 a.buffer_start_time, fault)
              k == LogIndex(s, a.buffer_id)
          IN  /\ Writer("main", flushlog[s][k].reply) \notin writers[s]
              /\ running \subseteq {Invocation(s, "final", a.buffer_id)}
              /\ running' = running \ {Invocation(s, "final", a.buffer_id)}
              /\ flushlog' = [flushlog EXCEPT ![s][k].rec_calls = @ + f.rec_calls]
              /\ IF conn[s] = "open"
                 THEN /\ sent' = [sent EXCEPT ![s] = @ \o
                            <<f.result,
                              [type |-> "error", code |-> JNum(500),
                               message |-> "Final processing error"]>>]
                      /\ UNCHANGED writers
                 ELSE UNCHANGED <<sent, writers>>
              /\ tasks' = [tasks EXCEPT ![s] = Remove(@, i)]
    /\ UNCHANGED <<clock, gpu_pipeline, backpressure, active_sessions, session, pc, conn,
                   nops, generated>>
    /\ UNCHANGED session_vars

\* Mutant: the task reads the session's buffer and id when it runs, not
\* the values of the flush it was spawned for.
FinalTask_LiveBuffer(s) ==
    /\ \E i \in DOMAIN tasks[s], fault \in StageFaults :
          LET a == tasks[s][i]
              f == process_final(a.whisper_result, session[s].buffer,
                                 session[s].buffer_id,
                                 a.buffer_start_time, fault)
              k == LogIndex(s, a.buffer_id)
          IN  /\ Writer("main", flushlog[s][k].reply) \notin writers[s]
              /\ running \subseteq {Invocation(s, "final", a.buffer_id)}
              /\ running' = running \ {Invocation(s, "final", a.buffer_id)}
              /\ flushlog' = [flushlog EXCEPT ![s][k].rec_calls = @ + f.rec_calls]
              /\ IF conn[s] = "open"
                 THEN Deliver(s, "final", f.result)
                 ELSE UNCHANGED <<sent, writers>>
              /\ tasks' = [tasks EXCEPT ![s] = Remove(@, i)]
    /\ UNCHANGED <<clock, gpu_pipeline, backpressure, active_sessions, session, pc, conn,
                   nops, generated>>
    /\ UNCHANGED session_vars

\* process_and_send_final_result, spawned with asyncio.create_task
FinalTask(s) ==
    /\ \E i \in DOMAIN tasks[s], fault \in StageFaults :
          LET a == tasks[s][i]
              f == process_final(a.whisper_result, a.audio_data, a.buffer_id,
                                 a.buffer_start_time, fault)
              k == LogIndex(s, a.buffer_id)
          IN  \* create_task runs once the send of the partial has returned
              /\ Writer("main", flushlog[s][k].reply) \notin writers[s]
              /\ running \subseteq {Invocation(s, "final", a.buffer_id)}
              /\ running' = running \ {Invocation(s, "final", a.buffer_id)}
              /\ flushlog' = [flushlog EXCEPT ![s][k].rec_calls = @ + f.rec_calls]
              /\ IF conn[s] = "open"
                 THEN Deliver(s, "final", f.result)
                 ELSE \* both send attempts raise; the second is logged
                      UNCHANGED <<sent, writers>>
              /\ tasks' = [tasks EXCEPT ![s] = Remove(@, i)]
    /\ UNCHANGED <<clock, gpu_pipeline, backpressure, active_sessions, session, pc, conn,
                   nops, generated>>
    /\ UNCHANGED session_vars

\* The endpoint reads the wall clock only to stamp buffer ids and the start
\* of a buffer.  Its steps are taken within one clock reading, where the ids
\* of a session differ in their counter alone; SessionSpec lets time pass.
Next ==
    \/ \E s \in Sessions : Connect(s)
    \/ \E s \in Sessions : Handshake(s)
    \/ \E s \in Sessions : ClientClose(s)
    \/ \E s \in Sessions : ReceiveBytes(s)
    \/ \E s \in Sessions : ReceiveText(s)
    \/ \E s \in Sessions : ReceiveDisconnect(s)
    \/ \E s \in Sessions : FlushAndPartial(s)
    \/ \E s \in Sessions : FinalTask(s)

Spec == Init /\ [][Next]_vars

\* The endpoint while wall-clock time passes.  The event loop runs every
\* coroutine that is ready, so the steps the server takes on its own are
\* taken eventually; when the client sends or leaves is up to the client.
TimedNext ==
    \/ Tick
    \/ Next

TimedSpec ==
    /\ Init
    /\ [][TimedNext]_vars
    /\ WF_vars(Tick)
    /\ \A s \in Sessions :
          /\ WF_vars(Handshake(s))
          /\ WF_vars(FlushAndPartial(s))
          /\ WF_vars(FinalTask(s))
          /\ WF_vars(ReceiveDisconnect(s))

\* The endpoint within one clock reading, on an event loop that runs every
\* coroutine that is ready: the steps the server takes on its own are taken
\* eventually.
FairSpec ==
    /\ Init
    /\ [][Next]_vars
    /\ \A s \in Sessions :
          /\ WF_vars(Handshake(s))
          /\ WF_vars(FlushAndPartial(s))
          /\ WF_vars(FinalTask(s))
          /\ WF_vars(ReceiveDisconnect(s))

\* A coroutine suspended in websocket.send_json goes on.  The send returns;
\* once the peer has gone it may raise instead.  In the main loop the raise
\* reaches the finally block, and the create_task that follows the send of a
\* partial is not reached.  In a final task the raise is logged.
SendReturns(s) ==
    /\ LoopFree
    /\ \E w \in writers[s] :
       \E raises \in (IF conn[s] = "closed" THEN BOOLEAN ELSE {FALSE}) :
          /\ writers' = [writers EXCEPT ![s] = @ \ {w}]
          /\ IF raises /\ w.who = "main"
             THEN /\ Cleanup(s)
                  /\ tasks' = [tasks EXCEPT ![s] = SelectSeq(@,
                        LAMBDA a :
                           flushlog[s][LogIndex(s, a.buffer_id)].reply # w.frame)]
             ELSE UNCHANGED <<active_sessions, pc, conn, tasks>>
    /\ UNCHANGED <<clock, gpu_pipeline, backpressure, running, session, sent, nops,
                   generated, flushlog>>
    /\ UNCHANGED session_vars

\* The endpoint on a transport that may hold a send back.
WriteInit == Boot(TRUE)

WriteNext ==
    \/ Next
    \/ \E s \in Sessions : SendReturns(s)

WriteSpec == WriteInit /\ [][WriteNext]_vars

\* The messages the endpoint has taken off all connections
RECURSIVE Taken(_)
Taken(S) ==
    IF S = {} THEN 0
    ELSE LET s == CHOOSE x \in S : TRUE
         IN  nops[s] + Taken(S \ {s})

\* A client sends a binary frame while the clients' budget lasts.
MultiReceiveBytes(s) == Taken(Clients) < MaxTaken /\ ReceiveBytes(s)

\* A client sends a text frame while the clients' budget lasts.
MultiReceiveText(s) == Taken(Clients) < MaxTaken /\ ReceiveText(s)

\* Several connections served by the one event loop: each runs its own
\* websocket_endpoint coroutine and final tasks over the shared registry and
\* pipeline.  The clients send MaxTaken messages between them.
MultiNext ==
    \/ \E s \in Clients : Connect(s)
    \/ \E s \in Clients : Handshake(s)
    \/ \E s \in Clients : ClientClose(s)
    \/ \E s \in Clients : MultiReceiveBytes(s)
    \/ \E s \in Clients : MultiReceiveText(s)
    \/ \E s \in Clients : ReceiveDisconnect(s)
    \/ \E s \in Clients : FlushAndPartial(s)
    \/ \E s \in Clients : FinalTask(s)

MultiSpec == Init /\ [][MultiNext]_vars

\* Mutant: the call is handed to a worker thread, whatever the event
\* loop's thread is doing.
BeginPartial_Offloaded(s) ==
    /\ pc[s] = "flush"
    /\ MainReady(s)
    /\ gpu_pipeline # None
    /\ running' = running \cup {Invocation(s, "partial", session[s].buffer_id)}
    /\ UNCHANGED <<clock, gpu_pipeline, backpressure, active_sessions, session,
                   pc, conn, sent, writers, tasks, nops, generated, flushlog>>
    /\ UNCHANGED session_vars

\* The main loop enters gpu_pipeline.process_partial_and_get_whisper_result
\* for the buffer it is about to hand over; FlushAndPartial is the step in
\* which the call returns.
BeginPartial(s) ==
    /\ pc[s] = "flush"
    /\ MainReady(s)
    /\ LoopFree
    /\ gpu_pipeline # None
    /\ running' = running \cup {Invocation(s, "partial", session[s].buffer_id)}
    /\ UNCHANGED <<clock, gpu_pipeline, backpressure, active_sessions, session,
                   pc, conn, sent, writers, tasks, nops, generated, flushlog>>
    /\ UNCHANGED session_vars

\* A final task enters gpu_pipeline.process_final; FinalTask is the step in
\* which the call returns.
BeginFinal(s) ==
    /\ LoopFree
    /\ \E i \in DOMAIN tasks[s] :
          LET a == tasks[s][i]
              k == LogIndex(s, a.buffer_id)
          IN  /\ Writer("main", flushlog[s][k].reply) \notin writers[s]
              /\ running' = running \cup {Invocation(s, "final", a.buffer_id)}
    /\ UNCHANGED <<clock, gpu_pipeline, backpressure, active_sessions, session,
                   pc, conn, sent, writers, tasks, nops, generated, flushlog>>
    /\ UNCHANGED session_vars

\* A client sends a binary frame; the clients send MaxMsgs between them.
InferReceiveBytes(s) == Taken(Clients) < MaxMsgs /\ ReceiveBytes(s)

\* Several connections on the one event loop, with the time the pipeline
\* calls take made visible: a call is entered in one step and returns in a
\* later one.  A pipeline has been loaded and the clients stay connected.
InferNext ==
    \/ \E s \in Clients : Connect(s)
    \/ \E s \in Clients : Handshake(s)
    \/ \E s \in Clients : InferReceiveBytes(s)
    \/ \E s \in Clients : BeginPartial(s)
    \/ \E s \in Clients : FlushAndPartial(s)
    \/ \E s \in Clients : BeginFinal(s)
    \/ \E s \in Clients : FinalTask(s)

InferSpec == PipelineInit /\ [][InferNext]_vars

-----------------------------------------------------------------------------
(* Properties of the session buffer (checked under SessionSpec) *)

Distinct(seq) == \A i, j \in DOMAIN seq : i # j => seq[i] # seq[j]

\* C3: within one session all buffer_id values generated so far (the initial
\* one and one per flush) are pairwise distinct, and after a flush the
\* current buffer_id differs from the one the flush returned.
C3_BufferIdsDistinct ==
    \A s \in Sessions :
        /\ Distinct(generated[s])
        /\ ret[s] # None => session[s].buffer_id # ret[s][1].buffer_id

\* Three ids exist, two of them generated within the same second.
C3_Witness ==
    \E s \in Sessions :
        /\ Len(generated[s]) >= 3
        /\ \E i, j \in DOMAIN generated[s] :
              i # j /\ generated[s][i].date_time = generated[s][j].date_time

IsFlushStep(s) == Len(generated'[s]) = Len(generated[s]) + 1

\* C10: flush() returns exactly the bytes appended since the previous flush,
\* in append order, with the buffer_id current before the call; after it the
\* buffer is empty, buffer_start_time undefined, the silence counter 0, the
\* counter one greater and the current buffer_id a new one.
C10_FlushContract ==
    [][\A s \in Sessions :
          /\ session'[s].buffer = Concat(appended'[s])
          /\ IsFlushStep(s) =>
                /\ ret'[s] # None
                /\ ret'[s][1].audio_data = Concat(appended[s])
                /\ ret'[s][1].buffer_id = session[s].buffer_id
                /\ session'[s].buffer = <<>>
                /\ session'[s].buffer_start_time = None
                /\ session'[s].silence_duration = 0
                /\ session'[s].buffer_counter = session[s].buffer_counter + 1
                /\ session'[s].buffer_id \notin Range(generated[s])]_vars

\* A flush has returned two chunks of different content, after silence was
\* tracked, and the session is as the flush left it.
C10_Witness ==
    \E s \in Sessions :
        /\ ret[s] # None
        /\ Len(ret[s][1].audio_data) >= 2
        /\ Len(generated[s]) >= 2
        /\ session[s].buffer = <<>>
        /\ session[s].silence_duration = 0
        /\ nops[s] >= 4

\* C28, as claimed: in every state reachable by any sequence of append,
\* track_silence, reset_silence and flush calls on a session buffer, for
\* chunks of any length including zero, buffer_start_time is defined if and
\* only if the buffer is non-empty.
C28_StartTimeIffNonEmpty ==
    \A s \in Sessions :
        session[s].buffer_start_time # None <=> session[s].buffer # <<>>

-----------------------------------------------------------------------------
(* Properties of validate_audio_chunk (checked under ValidatorSpec) *)

\* What C15 says of the latest call of validate for s.
ValidateAsSpecified(s) ==
    validated[s] # None =>
        LET r == validated[s][1]
            len == ByteLen(r.audio_data)
        IN  /\ r.is_valid <=>
                  (len # 0 /\ len <= 1920000 /\ len >= 64 /\ len % 4 = 0)
            /\ r.is_valid => r.error_response = None
            /\ ~r.is_valid =>
                  /\ r.error_response # None
                  /\ TypeOf(r.error_response[1]) = "error"
                  /\ CodeOf(r.error_response[1]) = JStr("INVALID_FORMAT")

-----------------------------------------------------------------------------
(* Properties of the GPU pipeline (checked under PipelineSpec) *)

\* The last direct call was op.
Called(s, op) == ret[s] # None /\ ret[s][1].op = op

\* segs are the segments of from, each marked as not corrected.
MarkedUncorrected(segs, from) ==
    /\ Len(segs) = Len(from)
    /\ \A i \in DOMAIN from :
          /\ HasKey(segs[i], "corrected")
          /\ segs[i].corrected = FALSE
          /\ \A k \in DOMAIN from[i] \ {"corrected"} :
                HasKey(segs[i], k) /\ segs[i][k] = from[i][k]

\* C21, as claimed: a failing enrichment stage in process_final still yields
\* a final result built from the data of the last successful stage; an
\* alignment, diarization or correction failure never yields an error result.
C21_StageFailureDegrades ==
    \A s \in Sessions :
        (Called(s, "process_final") /\ ret[s][1].fault # "none") =>
            /\ TypeOf(ret[s][1].result) = "final"
            /\ ~HasKey(ret[s][1].result, "error")

\* C22: a failure of the correction stage never makes the pipeline fail:
\* apply_llm_correction returns the input text unchanged and every input
\* segment marked as uncorrected, and process_final still produces a final
\* result, with the recognizer's text and its segments marked uncorrected.
C22_CorrectionFailureIsAbsorbed ==
    \A s \in Sessions :
        /\ Called(s, "apply_llm_correction") =>
              /\ DOMAIN ret[s][1].result
                    = {"corrected_text", "corrected_segments"}
              /\ ret[s][1].result.corrected_text = ret[s][1].text
              /\ MarkedUncorrected(ret[s][1].result.corrected_segments,
                                   ret[s][1].segments)
        /\ (/\ Called(s, "process_final")
            /\ ret[s][1].fault \in {"correct_connection", "correct_other"})
           => /\ TypeOf(ret[s][1].result) = "final"
              /\ ~HasKey(ret[s][1].result, "error")
              /\ ret[s][1].result.buffer_id = session[s].buffer_id
              /\ ret[s][1].result.text = ret[s][1].whisper_result[1].text
              /\ MarkedUncorrected(ret[s][1].result.segments,
                                   ret[s][1].whisper_result[1].segments)

\* process_final met an unreachable correction service on a recognizer
\* output with a segment, and returned a final.
C22_Witness ==
    \E s \in Sessions :
        /\ Called(s, "process_final")
        /\ ret[s][1].fault = "correct_connection"
        /\ ret[s][1].whisper_result[1].segments # <<>>
        /\ TypeOf(ret[s][1].result) = "final"
        /\ ret[s][1].result.segments # <<>>

\* The duration of a buffer of audio, in samples of 1/SAMPLE_RATE s, the
\* unit of the segment times.
DurationOf(audio_data) ==
    ByteLen(audio_data) \div (BYTES_PER_SECOND \div SAMPLE_RATE)

\* The last direct call returned a partial or a final result.
ReturnedResult(s) ==
    /\ ret[s] # None
    /\ ret[s][1].op \in {"process_partial", "process_final"}
    /\ TypeOf(ret[s][1].result) \in {"partial", "final"}

C36_VadFailsOpen ==
    \A s \in Sessions :
        (/\ Called(s, "process_partial")
         /\ ~gpu_pipeline[1].vad_model \/ ret[s][1].vad = "raise")
        => /\ ret[s][1].rec_calls = 1
           /\ ~HasKey(ret[s][1].result, "vad_skipped")
           /\ ret[s][1].whisper_result # None =>
                 ~HasKey(ret[s][1].whisper_result[1], "vad_skipped")

\* The detector is loaded and raised, and the partial carries the
\* recognizer's text.
C36_Witness ==
    \E s \in Sessions :
        /\ Called(s, "process_partial")
        /\ gpu_pipeline[1].vad_model
        /\ ret[s][1].vad = "raise"
        /\ TypeOf(ret[s][1].result) = "partial"
        /\ ret[s][1].result.text = "txt"

-----------------------------------------------------------------------------
(* Properties of the session runtime (checked under Spec) *)

Frames(s, type) == {j \in DOMAIN sent[s] : TypeOf(sent[s][j]) = type}

\* The number of the flush that returned buffer_id (0 if none did): the
\* k-th flush returns the k-th id the session generated.
FlushNo(s, buffer_id) ==
    IF \E k \in DOMAIN generated[s] : generated[s][k] = buffer_id
    THEN CHOOSE k \in DOMAIN generated[s] : generated[s][k] = buffer_id
    ELSE 0

\* C1: whenever a final with buffer_id B is sent on a connection, a partial
\* with the same buffer_id B was sent earlier on that connection.
C1_PartialPrecedesFinal ==
    \A s \in Sessions :
        \A j \in Frames(s, "final") :
            \E i \in Frames(s, "partial") :
                i < j /\ sent[s][i].buffer_id = sent[s][j].buffer_id

\* A final has been sent.
C1_Witness == \E s \in Sessions : Frames(s, "final") # {}

\* C2: at most one partial and at most one final are sent for any buffer_id,
\* and the partial and the final produced from one flush carry exactly the
\* buffer_id that flush returned.
C2_OnePartialOneFinalPerBufferId ==
    \A s \in Sessions :
        /\ \A type \in {"partial", "final"} :
              \A i, j \in Frames(s, type) :
                  i # j => sent[s][i].buffer_id # sent[s][j].buffer_id
        /\ \A k \in DOMAIN flushlog[s] :
              /\ flushlog[s][k].buffer_id = generated[s][k]
              /\ \A j \in Frames(s, "partial") :
                    j = flushlog[s][k].reply =>
                        sent[s][j].buffer_id = flushlog[s][k].buffer_id
        /\ \A j \in Frames(s, "partial") :
              \E k \in DOMAIN flushlog[s] : flushlog[s][k].reply = j
        /\ \A i \in DOMAIN tasks[s] :
              \E k \in DOMAIN flushlog[s] :
                  /\ flushlog[s][k].buffer_id = tasks[s][i].buffer_id
                  /\ flushlog[s][k].reply \in Frames(s, "partial")
        /\ \A j \in Frames(s, "final") :
              \E k \in DOMAIN flushlog[s] :
                  /\ flushlog[s][k].buffer_id = sent[s][j].buffer_id
                  /\ flushlog[s][k].reply \in Frames(s, "partial")
                  /\ flushlog[s][k].reply < j

\* Two buffers were flushed within the same second; both partials and both
\* finals have been sent.
C2_Witness ==
    \E s \in Sessions :
        /\ Cardinality(Frames(s, "partial")) = 2
        /\ Cardinality(Frames(s, "final")) = 2
        /\ generated[s][1].date_time = generated[s][2].date_time

\* C4: partials are sent in flush order, and the main loop does not receive
\* the next message until the partial phase of the current flush has
\* completed and its result has been sent.
C4_PartialsInFlushOrder ==
    \A s \in Sessions :
        /\ \A i, j \in Frames(s, "partial") :
              i < j => FlushNo(s, sent[s][i].buffer_id)
                          < FlushNo(s, sent[s][j].buffer_id)
        /\ pc[s] = "recv" =>
              /\ ~should_flush(session[s])
              /\ \A k \in DOMAIN flushlog[s] :
                    flushlog[s][k].pipeline => flushlog[s][k].reply > 0

\* The partials of two successive flushes have been sent and the loop is
\* ready for the next message.
C4_Witness ==
    \E s \in Sessions :
        /\ Cardinality(Frames(s, "partial")) = 2
        /\ pc[s] = "recv"

\* C5: the recognizer is invoked at most once for every flushed buffer, and
\* exactly once when the voice-activity gate reports speech; process_final
\* never invokes it, so N speech buffers cost N invocations.
C5_SingleRecognition ==
    \A s \in Sessions :
        \A k \in DOMAIN flushlog[s] :
            /\ flushlog[s][k].rec_calls <= 1
            /\ flushlog[s][k].has_speech => flushlog[s][k].rec_calls = 1

\* Two speech buffers were flushed and the finals of both have been sent.
C5_Witness ==
    \E s \in Sessions :
        /\ Len(flushlog[s]) = 2
        /\ \A k \in DOMAIN flushlog[s] : flushlog[s][k].has_speech
        /\ Cardinality(Frames(s, "final")) = 2

\* The flush logged last for session s in the next state is new.
Flushed(s) == Len(flushlog'[s]) = Len(flushlog[s]) + 1

\* What C6 says of every state.
OomConfined(s) ==
    \A k \in DOMAIN flushlog[s] :
        flushlog[s][k].rec = "oom" =>
            /\ flushlog[s][k].empty_cache
            /\ \A j \in Frames(s, "partial") \cup Frames(s, "final") :
                  sent[s][j].buffer_id # flushlog[s][k].buffer_id
            /\ \A i \in DOMAIN tasks[s] :
                  tasks[s][i].buffer_id # flushlog[s][k].buffer_id
            /\ (/\ k + 1 \in DOMAIN flushlog[s]
                /\ flushlog[s][k + 1].rec \in {"ok", "not called"}
                /\ flushlog[s][k + 1].reply > 0)
               => /\ TypeOf(sent[s][flushlog[s][k + 1].reply]) = "partial"
                  /\ sent[s][flushlog[s][k + 1].reply].buffer_id
                        = flushlog[s][k + 1].buffer_id

\* C6: if the recognizer raises GPU out-of-memory on flushed buffer K, the
\* GPU cache is released, no partial and no final is sent for K's buffer_id,
\* the session stays open and registered, and the next flushed buffer is
\* processed normally and yields a partial.
C6_OomSkipAndContinue ==
    [][\A s \in Sessions :
          /\ OomConfined(s)'
          /\ (/\ Flushed(s)
              /\ flushlog'[s][Len(flushlog'[s])].rec = "oom"
              /\ conn[s] = "open")
             => /\ pc'[s] = "recv"
                /\ conn'[s] = "open"
                /\ s \in active_sessions'
                /\ tasks'[s] = tasks[s]]_vars

\* Buffer 1 met out-of-memory, buffer 2 was recognized and its partial sent.
C6_Witness ==
    \E s \in Sessions :
        /\ Len(flushlog[s]) = 2
        /\ flushlog[s][1].rec = "oom"
        /\ flushlog[s][2].rec = "ok"
        /\ flushlog[s][2].reply \in Frames(s, "partial")
        /\ s \in active_sessions

\* C7, as claimed: when recognition of a flushed buffer fails with GPU
\* out-of-memory, the frame the client receives for that buffer is a frame
\* of type error whose code is GPU_OOM.
C7_OomFrameIsErrorGpuOom ==
    \A s \in Sessions :
        \A k \in DOMAIN flushlog[s] :
            (flushlog[s][k].rec = "oom" /\ flushlog[s][k].reply > 0) =>
                /\ TypeOf(sent[s][flushlog[s][k].reply]) = "error"
                /\ CodeOf(sent[s][flushlog[s][k].reply]) = JStr("GPU_OOM")

\* C11, as claimed: the buffer_start_time the main loop hands to
\* process_partial, and through the task to process_final, is the time that
\* was recorded when the first chunk of the flushed buffer was appended.
C11_StartTimeOfFlushedBuffer ==
    \A s \in Sessions :
        /\ \A k \in DOMAIN flushlog[s] :
              flushlog[s][k].pipeline =>
                  /\ flushlog[s][k].buffer_start_time # None
                  /\ flushlog[s][k].buffer_start_time = flushlog[s][k].first_append
        /\ \A i \in DOMAIN tasks[s] :
              tasks[s][i].buffer_start_time
                  = flushlog[s][LogIndex(s, tasks[s][i].buffer_id)].first_append

\* The flushes for which the voice-activity detector reported no speech.
VadSkipped(s) ==
    {k \in DOMAIN flushlog[s] :
        flushlog[s][k].pipeline /\ ~flushlog[s][k].has_speech}

\* C13: when voice-activity detection reports no speech for a flushed
\* buffer, the recognizer is not invoked for it, and the partial sent for it
\* has empty text, no segments and timestamp_range {0, 0}.
C13_VadSkipPartial ==
    \A s \in Sessions :
        \A k \in VadSkipped(s) :
            /\ flushlog[s][k].rec_calls = 0
            /\ flushlog[s][k].rec = "not called"
            /\ flushlog[s][k].reply > 0 =>
                  LET f == sent[s][flushlog[s][k].reply]
                  IN  /\ TypeOf(f) = "partial"
                      /\ f.buffer_id = flushlog[s][k].buffer_id
                      /\ f.text = ""
                      /\ f.segments = <<>>
                      /\ f.timestamp_range = [start |-> 0, end |-> 0]

\* The partial of a buffer without speech has been sent.
C13_Witness ==
    \E s \in Sessions :
        \E k \in VadSkipped(s) :
            /\ flushlog[s][k].reply > 0
            /\ TypeOf(sent[s][flushlog[s][k].reply]) = "partial"

\* C14, as claimed: when voice-activity detection reports no speech for a
\* flushed buffer, no final task is spawned and no final frame is ever sent
\* for its buffer_id.
C14_NoFinalAfterVadSkip ==
    \A s \in Sessions :
        \A k \in VadSkipped(s) :
            /\ \A i \in DOMAIN tasks[s] :
                  tasks[s][i].buffer_id # flushlog[s][k].buffer_id
            /\ \A j \in Frames(s, "final") :
                  sent[s][j].buffer_id # flushlog[s][k].buffer_id

\* The endpoint took a binary frame off the connection of s in this step.
BytesStep(s) == validated'[s] # validated[s]

\* The step sent exactly one frame on the connection of s.
SentOne(s) ==
    /\ Len(sent'[s]) = Len(sent[s]) + 1
    /\ SubSeq(sent'[s], 1, Len(sent[s])) = sent[s]

\* The frame the step sent on the connection of s.
FrameSent(s) == sent'[s][Len(sent'[s])]

\* C16: when a binary chunk fails validation, the server sends exactly one
\* error frame with code INVALID_FORMAT and no acknowledgement; the session
\* buffer, counter, buffer_id and silence counter stay unchanged, no flush is
\* triggered, and the session stays open and waits for the next message.
\* Every binary frame is treated on its own: an invalid one gets its error,
\* a valid one its acknowledgement.
C16_InvalidChunkDropped ==
    [][\A s \in Sessions :
          BytesStep(s) =>
             /\ SentOne(s)
             /\ IF validated'[s][1].is_valid
                THEN TypeOf(FrameSent(s)) = "audio_received"
                ELSE /\ TypeOf(FrameSent(s)) = "error"
                     /\ CodeOf(FrameSent(s)) = JStr("INVALID_FORMAT")
                     /\ session'[s] = session[s]
                     /\ appended'[s] = appended[s]
                     /\ generated'[s] = generated[s]
                     /\ flushlog'[s] = flushlog[s]
                     /\ tasks'[s] = tasks[s]
                     /\ pc'[s] = "recv"
                     /\ conn'[s] = "open"
                     /\ s \in active_sessions']_vars

\* A 6-byte chunk was refused with one error frame, and the valid chunk sent
\* after it was acknowledged.
C16_Witness ==
    \E s \in Sessions :
        /\ Len(sent[s]) = 3
        /\ TypeOf(sent[s][2]) = "error"
        /\ CodeOf(sent[s][2]) = JStr("INVALID_FORMAT")
        /\ TypeOf(sent[s][3]) = "audio_received"
        /\ validated[s] # None
        /\ validated[s][1].call = 2
        /\ validated[s][1].is_valid
        /\ ByteLen(session[s].buffer) = ByteLen(validated[s][1].audio_data)

\* The acknowledgement of the chunk that made the main loop flush is on the
\* connection, and the main loop has sent nothing after it.
AckedBeforeFlush(s) ==
    pc[s] = "flush" =>
        /\ validated[s] # None
        /\ validated[s][1].is_valid
        /\ \E j \in Frames(s, "audio_received") :
              /\ sent[s][j].bytes_received =
                    ByteLen(validated[s][1].audio_data)
              /\ \A i \in DOMAIN sent[s] :
                    i > j => /\ TypeOf(sent[s][i]) \notin
                                   {"audio_received", "partial"}
                             /\ CodeOf(sent[s][i]) \notin
                                   {JStr("INVALID_FORMAT"), JNum(400)}

\* C17: in every reachable state of a session the buffer length is a
\* multiple of the 4-byte frame size; every accepted chunk is answered by
\* exactly one audio_received frame whose bytes_received is the length of
\* that chunk, and no other step sends an audio_received; the frame is on the
\* connection before the partial of a flush that the chunk triggers.
C17_AlignedAndAcknowledged ==
    [][\A s \in Sessions :
          /\ ByteLen(session'[s].buffer) % 4 = 0
          /\ AckedBeforeFlush(s)'
          /\ IF BytesStep(s) /\ validated'[s][1].is_valid
             THEN /\ SentOne(s)
                  /\ FrameSent(s) =
                        [type |-> "audio_received",
                         bytes_received |->
                            ByteLen(validated'[s][1].audio_data)]
                  /\ ByteLen(session'[s].buffer) =
                        ByteLen(session[s].buffer)
                           + ByteLen(validated'[s][1].audio_data)
             ELSE /\ Cardinality(Frames(s, "audio_received")')
                        = Cardinality(Frames(s, "audio_received"))
                  /\ ByteLen(session'[s].buffer)
                        <= ByteLen(session[s].buffer)]_vars

\* A chunk of 1,920,000 bytes was acknowledged, then the partial of the
\* flush it triggered was sent; the next accepted chunk is in the buffer.
C17_Witness ==
    \E s \in Sessions :
        /\ Len(sent[s]) = 4
        /\ sent[s][2] = [type |-> "audio_received",
                         bytes_received |-> MAX_BUFFER_SIZE]
        /\ TypeOf(sent[s][3]) = "partial"
        /\ sent[s][4] = [type |-> "audio_received",
                         bytes_received |-> MAX_BUFFER_SIZE \div 2]
        /\ ByteLen(session[s].buffer) = MAX_BUFFER_SIZE \div 2

\* The endpoint took a text frame off the connection of s in this step.
TextStep(s) == nops'[s] = nops[s] + 1 /\ validated'[s] = validated[s]

\* C18: a text frame from the client is answered by exactly one error frame,
\* changes neither the session buffer nor the counter, buffer_id or silence
\* counter, triggers no flush, and leaves the session open and waiting for
\* the next message, so that later binary chunks are still processed.
C18_TextFrameRefused ==
    [][\A s \in Sessions :
          TextStep(s) =>
             /\ SentOne(s)
             /\ TypeOf(FrameSent(s)) = "error"
             /\ session'[s] = session[s]
             /\ appended'[s] = appended[s]
             /\ generated'[s] = generated[s]
             /\ flushlog'[s] = flushlog[s]
             /\ tasks'[s] = tasks[s]
             /\ pc'[s] = "recv"
             /\ conn'[s] = "open"
             /\ s \in active_sessions']_vars

\* A text frame was refused with one error frame, and the binary chunk sent
\* after it was appended and acknowledged.
C18_Witness ==
    \E s \in Sessions :
        /\ Len(sent[s]) = 3
        /\ TypeOf(sent[s][2]) = "error"
        /\ CodeOf(sent[s][2]) = JNum(400)
        /\ sent[s][3] = [type |-> "audio_received",
                         bytes_received |-> MAX_BUFFER_SIZE \div 2]
        /\ nops[s] = 2
        /\ ByteLen(session[s].buffer) = MAX_BUFFER_SIZE \div 2

\* C19: on every accepted connection the first frame the server sends is
\* connection_established carrying the session_id; it is sent after the
\* session has been registered and before any audio_received, partial, final
\* or error frame; the main loop takes no message before it has sent it.
C19_HandshakeFirst ==
    [][\A s \in Sessions :
          /\ sent'[s] # <<>> =>
                /\ TypeOf(sent'[s][1]) = "connection_established"
                /\ sent'[s][1].session_id = s
                /\ Frames(s, "connection_established")' = {1}
          /\ (sent[s] = <<>> /\ sent'[s] # <<>>) =>
                /\ conn[s] = "open"
                /\ s \in active_sessions
                /\ s \in active_sessions'
          /\ nops'[s] > 0 => sent'[s] # <<>>]_vars

\* The handshake frame is followed by an acknowledgement, a partial and the
\* final of the first buffer.
C19_Witness ==
    \E s \in Sessions :
        /\ Len(sent[s]) >= 4
        /\ sent[s][1] = [type |-> "connection_established",
                         message |-> "WebSocket connection established",
                         session_id |-> s]
        /\ Frames(s, "audio_received") # {}
        /\ Frames(s, "partial") # {}
        /\ Frames(s, "final") # {}

\* C24, as claimed: if a model fails to load at startup, the server does not
\* accept transcription connections: no connection reaches the open state
\* and no chunk is acknowledged.
C24_LoadFailureIsFatal ==
    gpu_pipeline = None =>
        \A s \in Sessions :
            /\ conn[s] # "open"
            /\ s \notin active_sessions
            /\ Frames(s, "audio_received") = {}

\* C26, as claimed: the session buffer never holds more than the maximum
\* buffer duration (30 s, 1,920,000 bytes), so the audio a flush hands to the
\* pipeline is never longer than 30 s and no result has a timestamp_range
\* that ends after 30.0 s, for any sequence of chunks the validator accepts.
C26_BufferWithinMaximum ==
    \A s \in Sessions :
        /\ ByteLen(session[s].buffer) <= 1920000
        /\ ret[s] # None => ByteLen(ret[s][1].audio_data) <= 1920000
        /\ \A j \in Frames(s, "partial") \cup Frames(s, "final") :
              sent[s][j].timestamp_range.end <= 30 * SAMPLE_RATE

\* The number a string of decimal digits stands for.
RECURSIVE NumberOf(_)
NumberOf(d) ==
    IF d = <<>> THEN 0
    ELSE 10 * NumberOf(SubSeq(d, 1, Len(d) - 1)) + d[Len(d)]

\* C27: the numeric suffix of the buffer_id returned by the k-th flush of a
\* session is k, zero-padded to three digits, the first being 001; every
\* flush advances the sequence by exactly one, also when the flushed buffer
\* is skipped because of an error, and nothing else changes the sequence.
C27_SuffixCountsFlushes ==
    [][\A s \in Sessions :
          /\ \A k \in DOMAIN flushlog'[s] :
                /\ Len(flushlog'[s][k].buffer_id.nnn) = 3
                /\ NumberOf(flushlog'[s][k].buffer_id.nnn) = k
          /\ NumberOf(session'[s].buffer_id.nnn) = Len(flushlog'[s]) + 1
          /\ IF Flushed(s)
             THEN NumberOf(session'[s].buffer_id.nnn)
                     = NumberOf(session[s].buffer_id.nnn) + 1
             ELSE session'[s].buffer_id.nnn = session[s].buffer_id.nnn]_vars

\* The first flushed buffer met out-of-memory and was skipped; the second
\* flush returned the id with suffix 002.
C27_Witness ==
    \E s \in Sessions :
        /\ Len(flushlog[s]) = 2
        /\ flushlog[s][1].rec = "oom"
        /\ flushlog[s][1].buffer_id.nnn = <<0, 0, 1>>
        /\ flushlog[s][2].buffer_id.nnn = <<0, 0, 2>>
        /\ session[s].buffer_id.nnn = <<0, 0, 3>>

\* C30: the main loop never waits for a background final: whatever final
\* tasks are pending, it takes the next chunk the client sends and goes on
\* to flush and send the next partial, so a trace in which the partial of
\* buffer N+1 precedes the final of buffer N is reachable.
C30_MainLoopDoesNotWait ==
    \A s \in Sessions :
        /\ (pc[s] = "recv" /\ conn[s] = "open" /\ nops[s] < MaxMsgs)
              => ENABLED ReceiveBytes(s)
        /\ pc[s] = "flush" => ENABLED FlushAndPartial(s)

\* The partial of the second buffer was sent before the final of the first.
C30_Witness ==
    \E s \in Sessions :
        /\ Len(flushlog[s]) = 2
        /\ \E j \in Frames(s, "partial"), i \in Frames(s, "final") :
              /\ j < i
              /\ sent[s][j].buffer_id = flushlog[s][2].buffer_id
              /\ sent[s][i].buffer_id = flushlog[s][1].buffer_id
              /\ flushlog[s][1].reply < j

\* The pipeline tasks of connection s that have been started and have not
\* finished: the partial the main loop is about to run or is running, and the
\* final tasks it has spawned.
PendingWork(s) == (IF pc[s] = "flush" THEN 1 ELSE 0) + Len(tasks[s])

\* C31: the pipeline tasks of one session that are started and not finished
\* stay within a fixed bound that does not grow with the number of flushes:
\* once a session has flushed more than once, fewer tasks are pending than
\* buffers were flushed.
C31_PendingWorkBounded ==
    \A s \in Sessions :
        Len(flushlog[s]) > 1 => PendingWork(s) < Len(flushlog[s])

\* C34: a final task that ends has delivered at most one frame, its result
\* or an error; on a closed connection it has delivered none; and it has
\* left the registry, the main loop and the session's buffer as they were.
C34_FinalTaskIsContained ==
    [][\A s \in Sessions :
          Len(tasks'[s]) < Len(tasks[s]) =>
             /\ Len(tasks'[s]) = Len(tasks[s]) - 1
             /\ \/ sent'[s] = sent[s]
                \/ /\ Len(sent'[s]) = Len(sent[s]) + 1
                   /\ SubSeq(sent'[s], 1, Len(sent[s])) = sent[s]
                   /\ LET frame == sent'[s][Len(sent'[s])]
                      IN  TypeOf(frame) = "final" \/ HasKey(frame, "error")
             /\ conn[s] # "open" => sent'[s] = sent[s]
             /\ active_sessions' = active_sessions
             /\ pc' = pc
             /\ conn' = conn
             /\ session' = session
             /\ appended' = appended]_vars

\* A final task has ended on a connection the peer had left: the partial
\* of its buffer is the last frame the connection carried.
C34_Witness ==
    \E s \in Sessions :
        /\ conn[s] = "closed"
        /\ tasks[s] = <<>>
        /\ flushlog[s] # <<>>
        /\ LET e == flushlog[s][Len(flushlog[s])]
           IN  /\ e.reply = Len(sent[s])
               /\ e.reply > 0
               /\ TypeOf(sent[s][e.reply]) = "partial"

\* C35: when the main loop's handling of a message raised (here: the send
\* of the partial of a flushed buffer), the loop has tried to send exactly
\* one error frame and has been left, and the session is out of the
\* registry.
C35_OneErrorFrameThenExit ==
    \A s \in Sessions :
        \A k \in DOMAIN flushlog[s] :
            (flushlog[s][k].pipeline /\ flushlog[s][k].reply = 0) =>
                /\ flushlog[s][k].error_attempts = 1
                /\ pc[s] = "done"
                /\ s \notin active_sessions

\* C37: what a pipeline invocation works on is fixed at flush time.  Every
\* pending final task holds the bytes and the id its flush returned and the
\* recognizer output its partial carried, whatever was appended or flushed
\* since; every final frame bears the id of the flush it belongs to and that
\* partial's text; and the live buffer holds exactly the chunks appended
\* since the last flush.
C37_FlushValuesFixed ==
    \A s \in Sessions :
        /\ session[s].buffer = Concat(appended[s])
        /\ \A i \in DOMAIN tasks[s] :
              LET a == tasks[s][i]
                  e == flushlog[s][LogIndex(s, a.buffer_id)]
              IN  /\ \E k \in DOMAIN flushlog[s] :
                         flushlog[s][k].buffer_id = a.buffer_id
                  /\ a.audio_data = e.audio_data
                  /\ a.buffer_id # session[s].buffer_id
                  /\ e.reply > 0
                  /\ a.whisper_result.text = sent[s][e.reply].text
                  /\ a.whisper_result.segments = sent[s][e.reply].segments
        /\ \A j \in DOMAIN sent[s] :
              TypeOf(sent[s][j]) = "final" =>
                 \E k \in DOMAIN flushlog[s] :
                    /\ flushlog[s][k].buffer_id = sent[s][j].buffer_id
                    /\ flushlog[s][k].reply \in 1..(j - 1)
                    /\ sent[s][j].text = sent[s][flushlog[s][k].reply].text
                    /\ sent[s][j].timestamp_range =
                          sent[s][flushlog[s][k].reply].timestamp_range

\* The final of a buffer went out after a later chunk had been appended
\* and acknowledged.
C37_Witness ==
    \E s \in Sessions :
        \E k \in DOMAIN flushlog[s], i, j \in DOMAIN sent[s] :
            /\ flushlog[s][k].reply > 0
            /\ flushlog[s][k].reply < i
            /\ i < j
            /\ TypeOf(sent[s][i]) = "audio_received"
            /\ TypeOf(sent[s][j]) = "final"
            /\ sent[s][j].buffer_id = flushlog[s][k].buffer_id
            /\ sent[s][j].text = "txt"

\* The types a frame may bear
FrameTypes ==
    {"connection_established", "audio_received", "partial", "final", "error"}

\* C38: every frame sent on a connection has a type field, and its value is
\* one of connection_established, audio_received, partial, final and error;
\* so do the frames sent when the partial phase or the final phase returned
\* an error result.
C38_EveryFrameTyped ==
    \A s \in Sessions :
        \A j \in DOMAIN sent[s] :
            /\ HasKey(sent[s][j], "type")
            /\ TypeOf(sent[s][j]) \in FrameTypes

\* C39: every buffer the main loop has flushed and gone on from has been
\* answered on the connection with a frame, also when no pipeline is loaded.
C39_FlushedBufferAnswered ==
    \A s \in Sessions :
        \A k \in DOMAIN flushlog[s] :
            pc[s] # "done" =>
                /\ flushlog[s][k].reply \in DOMAIN sent[s]
                /\ k > 1 => flushlog[s][k].reply > flushlog[s][k - 1].reply

-----------------------------------------------------------------------------
(* Properties of several connections (checked under MultiSpec) *)

\* The endpoint of s is between a successful accept and its finally block.
Open(s) == pc[s] \in {"handshake", "recv", "flush"}

\* C23: the session registry contains a session_id exactly while its
\* connection is open: it is inserted after accept and removed on every way
\* out of the session, never earlier; the active-session count reported to
\* health equals the number of open sessions and is never negative.
C23_RegistryMatchesOpenSessions ==
    [][/\ active_sessions' = {s \in Clients : Open(s)'}
       /\ get_active_sessions_count'
             = Cardinality({s \in Clients : Open(s)'})
       /\ get_active_sessions_count' >= 0
       /\ \A s \in Clients :
             /\ (s \notin active_sessions /\ s \in active_sessions') =>
                   /\ pc[s] = "idle"
                   /\ conn'[s] = "open"
             /\ (s \in active_sessions /\ s \notin active_sessions') =>
                   /\ pc'[s] = "done"
                   /\ conn'[s] = "closed"
             /\ pc'[s] = "done" => s \notin active_sessions']_vars

\* Two sessions were open at once; the first has left after a flush whose
\* partial could not be sent, the second is still registered.
C23_Witness ==
    /\ active_sessions = {2}
    /\ get_active_sessions_count = 1
    /\ pc[1] = "done"
    /\ Len(flushlog[1]) = 1
    /\ flushlog[1][1].pipeline
    /\ flushlog[1][1].reply = 0
    /\ pc[2] = "recv"

\* All the model holds for connection s.
Footprint(s) ==
    <<session[s], pc[s], conn[s], sent[s], writers[s], tasks[s], nops[s],
      ret[s], validated[s], generated[s], appended[s], flushlog[s],
      s \in active_sessions>>

\* C40: a step that acts for one connection leaves every other connection's
\* session (buffer, counter, buffer_id, silence counter), frames and registry
\* entry as they were, and an acknowledgement that goes out on a connection
\* counts the bytes of the chunk taken from that connection.
C40_SessionsDoNotInterfere ==
    [][\A a \in Clients :
          /\ \A b \in Clients \ {a} :
                Footprint(b)' # Footprint(b) =>
                   /\ session'[a] = session[a]
                   /\ sent'[a] = sent[a]
                   /\ tasks'[a] = tasks[a]
                   /\ appended'[a] = appended[a]
                   /\ (a \in active_sessions') <=> (a \in active_sessions)
          /\ (/\ Len(sent'[a]) > Len(sent[a])
              /\ TypeOf(sent'[a][Len(sent'[a])]) = "audio_received")
             => /\ validated'[a] # None
                /\ sent'[a][Len(sent'[a])].bytes_received
                      = ByteLen(validated'[a][1].audio_data)
                /\ nops'[a] = nops[a] + 1]_vars

\* One connection has had a buffer flushed and answered while the other,
\* open beside it, has its handshake frame alone and an untouched session.
C40_Witness ==
    \E a, b \in Clients :
        /\ a # b
        /\ Open(a)
        /\ Open(b)
        /\ flushlog[a] # <<>>
        /\ flushlog[a][1].reply > 0
        /\ Len(sent[b]) = 1
        /\ session[b].buffer = <<>>
        /\ session[b].buffer_counter = 1
        /\ flushlog[b] = <<>>

-----------------------------------------------------------------------------
(* Properties of the session runtime over time (checked under TimedSpec) *)

\* SILENCE_THRESHOLD in clock ticks
SilenceTicks == (SILENCE_THRESHOLD * 2) \div 10

\* The client has sent one chunk of at least the minimum buffer duration,
\* below the hard ceiling, and nothing since, for the silence threshold or
\* longer; the main loop waits in receive().
SilentAfterAudio(s) ==
    /\ pc[s] = "recv"
    /\ conn[s] = "open"
    /\ nops[s] = 1
    /\ Len(appended[s]) = 1
    /\ ByteLen(session[s].buffer) >= MIN_BUFFER_SIZE
    /\ ByteLen(session[s].buffer) < MAX_BUFFER_SIZE
    /\ clock >= session[s].buffer_start_time[1] + SilenceTicks

\* C12, as claimed: when a client has sent at least the minimum buffer
\* duration of audio and then nothing for the silence threshold, the buffer
\* is eventually flushed (unless the client sends again or leaves first).
C12_SilenceFlushesInRuntime ==
    \A s \in Sessions :
        SilentAfterAudio(s) ~>
            (Len(flushlog[s]) >= 1 \/ nops[s] > 1 \/ conn[s] # "open")

-----------------------------------------------------------------------------
(* Properties of the session runtime under fair scheduling (checked under  *)
(* FairSpec)                                                               *)

\* The k-th flush of s was answered with a partial, so its recognizer output
\* was handed to a final task, and the peer is there.
PartialSent(s, k) ==
    /\ k \in DOMAIN flushlog[s]
    /\ flushlog[s][k].reply \in Frames(s, "partial")
    /\ conn[s] = "open"

\* The final result of the k-th flush of s is on the connection.
FinalSent(s, k) ==
    /\ k \in DOMAIN flushlog[s]
    /\ \E j \in Frames(s, "final") :
          sent[s][j].buffer_id = flushlog[s][k].buffer_id

-----------------------------------------------------------------------------
(* Properties of the writes on a connection (checked under WriteSpec) *)

\* C20: all writes on one connection are serialized: at no time are two
\* send operations on the same connection in progress at once, also when the
\* main loop and background final tasks want to send at the same moment.
C20_WritesSerialized ==
    \A s \in Sessions : Cardinality(writers[s]) <= 1


-----------------------------------------------------------------------------
(* Properties of the pipeline calls in time (checked under InferSpec) *)

\* C32: at any time at most one pipeline invocation is executing, whatever
\* the number of open connections and of background final tasks.
C32_InferenceSerialized == Cardinality(running) <= 1

\* A final task is inside the pipeline while the main loop of another
\* connection holds a flushed buffer it has yet to hand over.
C32_Witness ==
    \E a, b \in Clients :
        /\ a # b
        /\ \E i \in DOMAIN tasks[a] :
              Invocation(a, "final", tasks[a][i].buffer_id) \in running
        /\ pc[b] = "flush"
        /\ conn[b] = "open"

\* C33: while the recognition of one connection's buffer is executing, the
\* main loop of another connection that waits in receive() can still take a
\* chunk and acknowledge it.
C33_SchedulerNotBlocked ==
    \A a, b \in Clients :
        (/\ a # b
         /\ Invocation(a, "partial", session[a].buffer_id) \in running
         /\ pc[b] = "recv"
         /\ MainReady(b)
         /\ conn[b] = "open"
         /\ nops[b] < MaxMsgs)
        => ENABLED ReceiveBytes(b)

=============================================================================
